---- MODULE Spec2Model ----
(***************************************************************************)
(* Model of the tax engine (calculateNigerianPIT) and of the extraction    *)
(* pipeline (extractTransactionsFromDocument) of services/geminiService,   *)
(* and of the App component with its FileUpload and Dashboard children.    *)
(*                                                                         *)
(* Money.  Gross income, reliefs, taxable income and the band amounts are  *)
(* whole naira.  Band rates are held as whole percents (0.07 is 7), so     *)
(* `tax` and `totalTax` are in hundredths of a naira (kobo): 54000 naira   *)
(* is 5400000.  Gross incomes are drawn from multiples of 100 naira, for   *)
(* which 1% and 20% of the income are whole naira, so every quantity of    *)
(* the function is represented exactly.  effectiveRate, a quotient, is an  *)
(* exact fraction in lowest terms.  The rounding of IEEE doubles is not    *)
(* modelled.                                                               *)
(***************************************************************************)
EXTENDS Integers, Sequences, FiniteSets, TLC

\* ------------------------------------------------------------------------
\* Bounds of the model
\* ------------------------------------------------------------------------

\* gross incomes run over the multiples of 50000 naira up to MaxK * 50000
MaxK == 404

\* ------------------------------------------------------------------------
\* Arithmetic helpers
\* ------------------------------------------------------------------------

Max(a, b) == IF a >= b THEN a ELSE b

Min(a, b) == IF a <= b THEN a ELSE b

RECURSIVE GCD(_, _)
GCD(a, b) == IF b = 0 THEN a ELSE GCD(b, a % b)

\* the exact quotient n / d (n >= 0, d > 0) in lowest terms
Frac(n, d) == LET g == GCD(n, d) IN [num |-> n \div g, den |-> d \div g]

Zero == [num |-> 0, den |-> 1]

\* ------------------------------------------------------------------------
\* Tax engine: calculateNigerianPIT
\* ------------------------------------------------------------------------

\* limit of the last band: Math.min(remaining, Infinity) is remaining
Infinity == 2147483647

\* the first two rates exchanged
bands_swapped ==
  << [limit |-> 300000,   rate |-> 11],
     [limit |-> 300000,   rate |-> 7],
     [limit |-> 500000,   rate |-> 15],
     [limit |-> 500000,   rate |-> 19],
     [limit |-> 1600000,  rate |-> 21],
     [limit |-> Infinity, rate |-> 24] >>

bands ==
  << [limit |-> 300000,   rate |-> 7],
     [limit |-> 300000,   rate |-> 11],
     [limit |-> 500000,   rate |-> 15],
     [limit |-> 500000,   rate |-> 19],
     [limit |-> 1600000,  rate |-> 21],
     [limit |-> Infinity, rate |-> 24] >>

\* Math.min written for Math.max
baseReliefOf_min(g) == Min(200000, g \div 100)

\* Math.max(200000, grossIncome * 0.01)
baseReliefOf(g) == Max(200000, g \div 100)

\* 10% written for 20%
variableReliefOf_tenth(g) == g \div 10

\* grossIncome * 0.20
variableReliefOf(g) == g \div 5

consolidatedReliefOf(g) == baseReliefOf(g) + variableReliefOf(g)

\* the operands of the subtraction exchanged
taxableIncomeOf_swapped(g) == Max(0, consolidatedReliefOf(g) - g)

\* the difference without the clamp at 0
taxableIncomeOf_unclamped(g) == g - consolidatedReliefOf(g)

\* Math.max(0, grossIncome - consolidatedRelief)
taxableIncomeOf(g) == Max(0, g - consolidatedReliefOf(g))

\* < written for <=
LoopBreaks_strict(rem) == rem < 0

\* if (remaining <= 0) break;
LoopBreaks(rem) == rem <= 0

\* Math.min(remaining, band.limit)
taxableAtThisBand(rem, band) == Min(rem, band.limit)

\* taxableAtThisBand * band.rate, in hundredths of a naira
bandTax(amount, band) == amount * band.rate

\* the for loop over the bands, from band i on
RECURSIVE BandLoop(_, _, _)
BandLoop(i, t, rem) ==
  IF i > Len(bands) \/ LoopBreaks(rem) THEN t
  ELSE LET a == taxableAtThisBand(rem, bands[i])
       IN  BandLoop(i + 1, t + bandTax(a, bands[i]), rem - a)

\* the multiplication by 100 left out
effectiveRateOf_unscaled(g, t) == IF g > 0 THEN Frac(t, g * 100) ELSE Zero

\* grossIncome > 0 ? (tax / grossIncome) * 100 : 0
\* (tax is in hundredths, so tax / grossIncome is already the percentage)
effectiveRateOf(g, t) == IF g > 0 THEN Frac(t, g) ELSE Zero

\* the value the function returns
calculateNigerianPIT(g) ==
  LET t == BandLoop(1, 0, taxableIncomeOf(g))
  IN  [grossIncome        |-> g,
       consolidatedRelief |-> consolidatedReliefOf(g),
       taxableIncome      |-> taxableIncomeOf(g),
       totalTax           |-> t,
       effectiveRate      |-> effectiveRateOf(g, t)]

\* gross incomes at which the taxable income lands on a band boundary
\* (250000: taxable income 0; 20000000: 1% of the income reaches 200000)
BoundaryGross == {250000, 625000, 1000000, 1625000, 2250000, 4250000, 20000000}

\* negative gross incomes, down to where the relief itself turns negative
NegativeGross == {-20000000, -2000000, -250000, -100}

GrossInputs ==
  {k * 50000 : k \in (-2)..MaxK}
    \cup {b + d : b \in BoundaryGross, d \in {-100, 0, 100}}
    \cup NegativeGross

VARIABLES
  taxPc,           \* "start", "loop" (in the for loop), "done" (returned)
  grossIncome,     \* the argument
  taxableIncome,   \* const taxableIncome
  tax,             \* let tax
  remaining,       \* let remaining
  band,            \* index of the band the for loop is at
  taken,           \* per iteration run: [amount |-> taxableAtThisBand, tax |-> its tax]
  taxResult        \* the returned TaxBreakdown

taxVars == <<taxPc, grossIncome, taxableIncome, tax, remaining, band, taken, taxResult>>

\* the state of one extraction call (extractTransactionsFromDocument, below)
VARIABLES
  revision,      \* which revision of the service runs
  apiKey,        \* whether process.env.API_KEY is set
  base64Data,    \* argument: the document
  provider,      \* argument: the ModelProvider
  callerRetry,   \* argument: retryCount as the caller passed it
  retryCount,    \* retryCount of the running call
  callPc,        \* "Idle", "RequestSent", "EmptyResponse", "ResponseReceived",
                 \* "ProviderFault", "Done", "Failed"
  modelName,     \* let modelName
  invocations,   \* number of ai.models.generateContent calls made
  inFlight,      \* number of those not yet settled
  answer,        \* the answer the provider gave last (which input it is)
  jsonText,      \* response.text (empty when there is none)
  fault,         \* text of the error the provider call threw
  result,        \* the value returned to the caller
  errorMessage,  \* message of the Error thrown to the caller, as parts
  events         \* provider events so far: "invoke", "empty", "text", "fault"

extVars == <<revision, apiKey, base64Data, provider, callerRetry, retryCount,
             callPc, modelName, invocations, inFlight, answer, jsonText, fault,
             result, errorMessage, events>>

\* two extraction calls running side by side
VARIABLES calls

callVars == <<calls>>

\* the App component with its FileUpload and Dashboard children, and the
\* browser's localStorage
VARIABLES
  storage,              \* localStorage: a set of <<key, value>>
  showOnboarding,       \* App state
  transactions,         \* App state: the transaction set in memory
  isProcessing,         \* App state
  view,                 \* App state: "upload" or "dashboard"
  taxData,              \* Dashboard: the tax breakdown it renders
  uploadRev,            \* which copy of FileUpload is mounted
  uploadProvider,       \* FileUpload state: provider
  uploadError,          \* FileUpload state: error
  uploadProgress,       \* FileUpload state: uploadProgress (second copy)
  reads,                \* FileReader reads and timers under way
  jobs,                 \* extraction calls started by handleFileProcess
  resetState            \* "reset" from handleReset until the next submission

appVars == <<storage, showOnboarding, transactions, isProcessing, view, taxData,
             uploadRev, uploadProvider, uploadError, uploadProgress, reads, jobs,
             resetState>>

vars == <<taxVars, extVars, callVars, appVars>>

NoResult == [grossIncome |-> 0, consolidatedRelief |-> 0, taxableIncome |-> 0,
             totalTax |-> 0, effectiveRate |-> Zero]

TaxInit ==
  /\ taxPc = "start"
  /\ grossIncome \in GrossInputs
  /\ taxableIncome = 0
  /\ tax = 0
  /\ remaining = 0
  /\ band = 1
  /\ taken = << >>
  /\ taxResult = NoResult

\* lines 13-31: the reliefs, the taxable income, the loop's initial values
TaxEnter ==
  /\ taxPc = "start"
  /\ taxableIncome' = taxableIncomeOf(grossIncome)
  /\ tax' = 0
  /\ remaining' = taxableIncomeOf(grossIncome)
  /\ band' = 1
  /\ taxPc' = "loop"
  /\ UNCHANGED <<grossIncome, taken, taxResult>>
  /\ UNCHANGED extVars
  /\ UNCHANGED <<callVars, appVars>>

\* lines 33-38: one iteration of the for loop that does not break
BandStep ==
  /\ taxPc = "loop"
  /\ band <= Len(bands)
  /\ ~LoopBreaks(remaining)
  /\ LET a == taxableAtThisBand(remaining, bands[band])
     IN  /\ tax' = tax + bandTax(a, bands[band])
         /\ remaining' = remaining - a
         /\ taken' = Append(taken, [amount |-> a, tax |-> bandTax(a, bands[band])])
  /\ band' = band + 1
  /\ UNCHANGED <<taxPc, grossIncome, taxableIncome, taxResult>>
  /\ UNCHANGED extVars
  /\ UNCHANGED <<callVars, appVars>>

\* lines 33-34, 40-46: the loop ends (break, or bands exhausted) and the
\* function returns
TaxReturn ==
  /\ taxPc = "loop"
  /\ (band > Len(bands) \/ LoopBreaks(remaining))
  /\ taxResult' = [grossIncome        |-> grossIncome,
                   consolidatedRelief |-> consolidatedReliefOf(grossIncome),
                   taxableIncome      |-> taxableIncome,
                   totalTax           |-> tax,
                   effectiveRate      |-> effectiveRateOf(grossIncome, tax)]
  /\ taxPc' = "done"
  /\ UNCHANGED <<grossIncome, taxableIncome, tax, remaining, band, taken>>
  /\ UNCHANGED extVars
  /\ UNCHANGED <<callVars, appVars>>

TaxNext == TaxEnter \/ BandStep \/ TaxReturn

\* ------------------------------------------------------------------------
\* Text: a string is a sequence of one-character strings
\* ------------------------------------------------------------------------

\* the grave accent character (it cannot be written in a string here)
Backtick == "BACKTICK"

UpperCase == <<"A","B","C","D","E","F","G","H","I","J","K","L","M",
               "N","O","P","Q","R","S","T","U","V","W","X","Y","Z">>

LowerCase == <<"a","b","c","d","e","f","g","h","i","j","k","l","m",
               "n","o","p","q","r","s","t","u","v","w","x","y","z">>

LowerOf == [c \in {UpperCase[i] : i \in 1..26} |->
              LowerCase[CHOOSE i \in 1..26 : UpperCase[i] = c]]

\* String.prototype.toLowerCase, one character
LowerChar(c) == IF c \in DOMAIN LowerOf THEN LowerOf[c] ELSE c

\* String.prototype.toLowerCase
toLowerCase(s) == [i \in 1..Len(s) |-> LowerChar(s[i])]

\* whether pat occurs in s at position i
MatchAt(s, i, pat) ==
  /\ i >= 1
  /\ i + Len(pat) - 1 <= Len(s)
  /\ \A k \in 1..Len(pat) : s[i + k - 1] = pat[k]

\* String.prototype.includes
includes(s, pat) ==
  \/ pat = << >>
  \/ \E i \in 1..(Len(s) - Len(pat) + 1) : s[i] = pat[1] /\ MatchAt(s, i, pat)

\* String.prototype.startsWith / endsWith
startsWith(s, pat) == MatchAt(s, 1, pat)

endsWith(s, pat) == MatchAt(s, Len(s) - Len(pat) + 1, pat)

\* String.prototype.lastIndexOf for one character, 1-based; 0 when absent
\* (the code's -1)
lastIndexOf(s, c) ==
  IF \E i \in 1..Len(s) : s[i] = c
  THEN CHOOSE i \in 1..Len(s) : s[i] = c /\ \A j \in (i + 1)..Len(s) : s[j] # c
  ELSE 0

\* position of the first occurrence of pat in s from i on; 0 when there is none
NextMatch(s, i, pat) ==
  IF \E j \in i..Len(s) : s[j] = pat[1] /\ MatchAt(s, j, pat)
  THEN CHOOSE j \in i..Len(s) :
         /\ s[j] = pat[1]
         /\ MatchAt(s, j, pat)
         /\ \A k \in i..(j - 1) : ~(s[k] = pat[1] /\ MatchAt(s, k, pat))
  ELSE 0

\* String.prototype.replace(/pat/g, ''): every occurrence removed, scanning
\* from the left
RECURSIVE RemoveAll(_, _, _)
RemoveAll(s, i, pat) ==
  LET m == NextMatch(s, i, pat)
  IN  IF m = 0 THEN SubSeq(s, i, Len(s))
      ELSE SubSeq(s, i, m - 1) \o RemoveAll(s, m + Len(pat), pat)

IsSpace(c) == c = " " \/ c = "\n"

\* String.prototype.trim
trim(s) ==
  IF \A i \in 1..Len(s) : IsSpace(s[i]) THEN << >>
  ELSE LET a == CHOOSE i \in 1..Len(s) :
                  ~IsSpace(s[i]) /\ \A j \in 1..(i - 1) : IsSpace(s[j])
           b == CHOOSE i \in 1..Len(s) :
                  ~IsSpace(s[i]) /\ \A j \in (i + 1)..Len(s) : IsSpace(s[j])
       IN  SubSeq(s, a, b)

\* ------------------------------------------------------------------------
\* JSON.parse.  A parsed value is [t |-> kind, v |-> content]: "str" with the
\* characters, "num" with the integer, "arr" with the elements in order,
\* "obj" with the members [k |-> key, v |-> value] in order, "lit" with the
\* literal's name.  Escapes, fractions and exponents are not in the inputs
\* and are rejected.
\* ------------------------------------------------------------------------

Digits == <<"0","1","2","3","4","5","6","7","8","9">>

IsDigit(c) == \E d \in 1..10 : Digits[d] = c

DigitValue(c) == (CHOOSE d \in 1..10 : Digits[d] = c) - 1

ParseFail == [ok |-> FALSE, val |-> [t |-> "none", v |-> << >>], pos |-> 0]

ParseOk(val, pos) == [ok |-> TRUE, val |-> val, pos |-> pos]

\* first index from i on that holds no white space (Len(s) + 1 when none)
SkipSpace(s, i) ==
  IF \E j \in i..Len(s) : ~IsSpace(s[j])
  THEN CHOOSE j \in i..Len(s) :
         ~IsSpace(s[j]) /\ \A k \in i..(j - 1) : IsSpace(s[k])
  ELSE Max(i, Len(s) + 1)

\* index of the quote closing the string whose content starts at i; 0 when
\* the string is not closed (or holds a raw line break or a backslash)
StringEnd(s, i) ==
  LET Stops(j) == s[j] \in {"\"", "\n", "\\"}
  IN  IF \E j \in i..Len(s) : Stops(j)
      THEN LET e == CHOOSE j \in i..Len(s) :
                      Stops(j) /\ \A k \in i..(j - 1) : ~Stops(k)
           IN  IF s[e] = "\"" THEN e ELSE 0
      ELSE 0

\* s[i] is the opening quote
ParseString(s, i) ==
  LET e == StringEnd(s, i + 1)
  IN  IF e = 0 THEN ParseFail
      ELSE ParseOk([t |-> "str", v |-> SubSeq(s, i + 1, e - 1)], e + 1)

\* first index from i on that is not a digit
DigitsEnd(s, i) ==
  IF \E j \in i..Len(s) : ~IsDigit(s[j])
  THEN CHOOSE j \in i..Len(s) :
         ~IsDigit(s[j]) /\ \A k \in i..(j - 1) : IsDigit(s[k])
  ELSE Max(i, Len(s) + 1)

RECURSIVE DigitsValue(_, _, _, _)
DigitsValue(s, i, e, acc) ==
  IF i >= e THEN acc ELSE DigitsValue(s, i + 1, e, acc * 10 + DigitValue(s[i]))

\* an integer: -? (0 | [1-9][0-9]*)
ParseNumber(s, i) ==
  LET neg == s[i] = "-"
      b   == IF neg THEN i + 1 ELSE i
      e   == DigitsEnd(s, b)
  IN  IF e = b THEN ParseFail
      ELSE IF s[b] = "0" /\ e > b + 1 THEN ParseFail
      ELSE IF e <= Len(s) /\ s[e] \in {".", "e", "E"} THEN ParseFail
      ELSE LET n == DigitsValue(s, b, e, 0)
           IN  ParseOk([t |-> "num", v |-> IF neg THEN 0 - n ELSE n], e)

ParseLiteral(s, i, word, name) ==
  IF MatchAt(s, i, word) THEN ParseOk([t |-> "lit", v |-> name], i + Len(word))
  ELSE ParseFail

RECURSIVE ParseValue(_, _)
RECURSIVE ParseElements(_, _, _)
RECURSIVE ParseMembers(_, _, _)

\* the elements of an array from i on, after those in acc
ParseElements(s, i, acc) ==
  LET r == ParseValue(s, i)
  IN  IF ~r.ok THEN ParseFail
      ELSE LET k == SkipSpace(s, r.pos)
           IN  IF k > Len(s) THEN ParseFail
               ELSE IF s[k] = "," THEN ParseElements(s, k + 1, Append(acc, r.val))
               ELSE IF s[k] = "]"
                    THEN ParseOk([t |-> "arr", v |-> Append(acc, r.val)], k + 1)
               ELSE ParseFail

\* the members of an object from i on, after those in acc
ParseMembers(s, i, acc) ==
  LET a == SkipSpace(s, i)
  IN  IF a > Len(s) \/ s[a] # "\"" THEN ParseFail
      ELSE LET key == ParseString(s, a)
           IN  IF ~key.ok THEN ParseFail
               ELSE LET c == SkipSpace(s, key.pos)
                    IN  IF c > Len(s) \/ s[c] # ":" THEN ParseFail
                        ELSE LET r == ParseValue(s, c + 1)
                             IN  IF ~r.ok THEN ParseFail
                                 ELSE LET k == SkipSpace(s, r.pos)
                                          m == Append(acc, [k |-> key.val.v, v |-> r.val])
                                      IN  IF k > Len(s) THEN ParseFail
                                          ELSE IF s[k] = "," THEN ParseMembers(s, k + 1, m)
                                          ELSE IF s[k] = "}"
                                               THEN ParseOk([t |-> "obj", v |-> m], k + 1)
                                          ELSE ParseFail

ParseValue(s, i) ==
  LET a == SkipSpace(s, i)
  IN  IF a > Len(s) THEN ParseFail
      ELSE IF s[a] = "[" THEN
             LET b == SkipSpace(s, a + 1)
             IN  IF b <= Len(s) /\ s[b] = "]"
                 THEN ParseOk([t |-> "arr", v |-> << >>], b + 1)
                 ELSE ParseElements(s, b, << >>)
      ELSE IF s[a] = "{" THEN
             LET b == SkipSpace(s, a + 1)
             IN  IF b <= Len(s) /\ s[b] = "}"
                 THEN ParseOk([t |-> "obj", v |-> << >>], b + 1)
                 ELSE ParseMembers(s, b, << >>)
      ELSE IF s[a] = "\"" THEN ParseString(s, a)
      ELSE IF s[a] = "-" \/ IsDigit(s[a]) THEN ParseNumber(s, a)
      ELSE IF s[a] = "n" THEN ParseLiteral(s, a, <<"n","u","l","l">>, "null")
      ELSE IF s[a] = "t" THEN ParseLiteral(s, a, <<"t","r","u","e">>, "true")
      ELSE IF s[a] = "f" THEN ParseLiteral(s, a, <<"f","a","l","s","e">>, "false")
      ELSE ParseFail

\* JSON.parse(s): ok is FALSE where JSON.parse throws
JSONparse(s) ==
  LET r == ParseValue(s, 1)
  IN  IF r.ok /\ SkipSpace(s, r.pos) = Len(s) + 1 THEN r ELSE ParseFail

\* ------------------------------------------------------------------------
\* Extraction pipeline: extractTransactionsFromDocument.
\* The service exists in two revisions in the repository: revision 1
\* (with size escalation and JSON repair) and revision 2 (without).
\* ------------------------------------------------------------------------

\* enum ModelProvider
GEMINI_FLASH == "Gemini Flash (Fast)"

GEMINI_PRO == "Gemini Pro (Reasoning)"

GROK_BETA == "Grok (Beta)"

ModelProvider == {GEMINI_FLASH, GEMINI_PRO, GROK_BETA}

\* the two backend model names
FlashModel == "gemini-flash-latest"

ProModel == "gemini-3-pro-preview"

Revisions == {1, 2}

\* --- messages thrown to the caller (a message is a sequence of parts, a
\* --- prefix tag being a part put in front)

ConfigurationMessage == "System Configuration Error: API Key is missing."

DataFormatMessage == "Failed to parse the financial data. The document might be illegible."

GenericMessage == "Failed to process document."

AccessDeniedMessage == "Access Denied: Invalid or Missing API Key."

ModelUnavailableMessage(rev) ==
  IF rev = 1
  THEN "Engine Error: The selected model is not available. Please try switching between Flash and Grok/Pro."
  ELSE "Engine Error: The selected model is not available. Please try switching between Flash and Grok."

RateLimitedMessage == "Traffic limit exceeded. Retrying automatically usually fixes this."

PayloadTooLargeMessage == "The document size exceeds the secure transmission limit (20MB encoded). Please try compressing your PDF or converting to grayscale to reduce size."

ContentTooDenseMessage == "This document is extremely dense. We have automatically switched to High-Capacity mode, but it may still be too large. Please split the PDF."

TooLargeForFlashMessage == "This document is too large for the Flash engine. Please switch to 'Grok (Beta)' for higher capacity."

TokenLimitMessage == "This document exceeds the 2 Million token limit. Please split the PDF."

UnsupportedComplexityMessage == "The document structure is too complex for the engine. Please try converting to an Image or creating a simpler PDF."

ContentBlockedMessage == "The document was flagged by security filters. Try a different file."

ProAuditTag == "[Pro Audit] "

GrokBetaTag == "[Grok Beta] "

\* the characters of DataFormatMessage, as the catch block reads them from
\* error.message
DataFormatText ==
  <<"F","a","i","l","e","d"," ","t","o"," ","p","a","r","s","e"," ","t","h",
    "e"," ","f","i","n","a","n","c","i","a","l"," ","d","a","t","a","."," ",
    "T","h","e"," ","d","o","c","u","m","e","n","t"," ","m","i","g","h","t",
    " ","b","e"," ","i","l","l","e","g","i","b","l","e",".">>

Pat_api_key == <<"a","p","i"," ","k","e","y">>

Pat_403 == <<"4","0","3">>

Pat_404 == <<"4","0","4">>

Pat_not_found == <<"n","o","t"," ","f","o","u","n","d">>

Pat_quota == <<"q","u","o","t","a">>

Pat_429 == <<"4","2","9">>

Pat_too_large == <<"t","o","o"," ","l","a","r","g","e">>

Pat_payload == <<"p","a","y","l","o","a","d">>

Pat_413 == <<"4","1","3">>

Pat_token_count == <<"t","o","k","e","n"," ","c","o","u","n","t">>

Pat_limit == <<"l","i","m","i","t">>

Pat_dependency == <<"d","e","p","e","n","d","e","n","c","y">>

Pat_internal == <<"i","n","t","e","r","n","a","l">>

Pat_1048576 == <<"1","0","4","8","5","7","6">>

Pat_security == <<"s","e","c","u","r","i","t","y">>

Pat_blocked == <<"b","l","o","c","k","e","d">>

\* the rules of the catch block, in order: the substrings that select the
\* message.  Revision 2's token rule picks its message by the provider.
ErrorRules(rev, prov) ==
  IF rev = 1
  THEN << [pats |-> {Pat_api_key, Pat_403},                 msg |-> AccessDeniedMessage],
          [pats |-> {Pat_404, Pat_not_found},               msg |-> ModelUnavailableMessage(rev)],
          [pats |-> {Pat_quota, Pat_429},                   msg |-> RateLimitedMessage],
          [pats |-> {Pat_too_large, Pat_payload, Pat_413},  msg |-> PayloadTooLargeMessage],
          [pats |-> {Pat_token_count, Pat_limit},           msg |-> ContentTooDenseMessage],
          [pats |-> {Pat_dependency, Pat_internal},         msg |-> UnsupportedComplexityMessage] >>
  ELSE << [pats |-> {Pat_api_key, Pat_403},                 msg |-> AccessDeniedMessage],
          [pats |-> {Pat_404, Pat_not_found},               msg |-> ModelUnavailableMessage(rev)],
          [pats |-> {Pat_quota, Pat_429},                   msg |-> RateLimitedMessage],
          [pats |-> {Pat_token_count, Pat_1048576, Pat_too_large},
           msg  |-> IF prov = GEMINI_FLASH THEN TooLargeForFlashMessage
                    ELSE TokenLimitMessage],
          [pats |-> {Pat_dependency, Pat_internal},         msg |-> UnsupportedComplexityMessage],
          [pats |-> {Pat_security, Pat_blocked},            msg |-> ContentBlockedMessage] >>

RuleMatches(rule, errStr) == \E p \in rule.pats : includes(errStr, p)

\* a chain in which a later matching rule would overwrite an earlier one
friendlyMessage_lastMatch(rev, prov, errStr) ==
  LET rules == ErrorRules(rev, prov)
      hits  == {i \in 1..Len(rules) : RuleMatches(rules[i], errStr)}
  IN  IF hits = {} THEN GenericMessage
      ELSE rules[CHOOSE i \in hits : \A j \in hits : i >= j].msg

\* the if / else if chain: the message of the first rule that matches, the
\* generic message when none does
friendlyMessage(rev, prov, errStr) ==
  LET rules == ErrorRules(rev, prov)
      hits  == {i \in 1..Len(rules) : RuleMatches(rules[i], errStr)}
  IN  IF hits = {} THEN GenericMessage
      ELSE rules[CHOOSE i \in hits : \A j \in hits : i <= j].msg

\* whether the catch block puts a tag in front, and which
PrefixTag(rev, prov, model) ==
  IF rev = 1
  THEN IF prov = GROK_BETA \/ model = ProModel THEN <<ProAuditTag>> ELSE << >>
  ELSE IF prov = GROK_BETA THEN <<GrokBetaTag>> ELSE << >>

\* a catch block that would hand the caught error's text on to the caller
CaughtMessage_raw(rev, prov, model, errText) ==
  PrefixTag(rev, prov, model) \o <<"the text of the caught error">>

\* the catch block: the message of the Error it throws, for the caught
\* error's text
CaughtMessage(rev, prov, model, errText) ==
  PrefixTag(rev, prov, model)
    \o <<friendlyMessage(rev, prov, toLowerCase(errText))>>

\* the catch block on the Error of the inner catch (the parse failure), whose
\* text is always DataFormatText: its messages, computed once
CaughtParseFailure ==
  [rev \in Revisions |-> [prov \in ModelProvider |-> [model \in {FlashModel, ProModel} |->
     CaughtMessage(rev, prov, model, DataFormatText)]]]

\* --- the document argument: base64Data is "<header>,<body>" or "<body>";
\* --- only the lengths matter

\* length of "data:application/pdf;base64"
HeaderLength == 27

\* length of base64Data.split(',')[1] || base64Data
cleanBase64Length(doc) ==
  IF doc.header /\ doc.body > 0 THEN doc.body
  ELSE IF doc.header THEN HeaderLength + 1
  ELSE doc.body

\* approximateSizeInMB > 10, with approximateSizeInMB =
\* cleanBase64.length * 0.75 / (1024 * 1024)
OverTenMB(len) == len * 3 > 10 * 4 * 1024 * 1024

\* modelName after the model selection
selectModel(rev, doc, prov) ==
  IF rev = 1
  THEN IF OverTenMB(cleanBase64Length(doc))
            \/ prov = GEMINI_PRO \/ prov = GROK_BETA
       THEN ProModel ELSE FlashModel
  ELSE IF prov = GEMINI_PRO \/ prov = GROK_BETA
       THEN ProModel ELSE FlashModel

\* a retry budget of two instead of one
MayRetry_twice(rc) == rc < 2

\* retryCount < 1
MayRetry(rc) == rc < 1

\* --- response repair and parse

FenceJson == <<Backtick, Backtick, Backtick, "j", "s", "o", "n">>

Fence == <<Backtick, Backtick, Backtick>>

\* jsonText.replace(/```json/g, '').replace(/```/g, '').trim()
StripFences(text) == trim(RemoveAll(RemoveAll(text, 1, FenceJson), 1, Fence))

\* a repair that would close the array when it finds no "}"
Repair_closesArray(clean) ==
  IF startsWith(clean, <<"[">>) /\ ~endsWith(clean, <<"]">>)
  THEN LET lastClosingBrace == lastIndexOf(clean, "}")
       IN  IF lastClosingBrace # 0
           THEN SubSeq(clean, 1, lastClosingBrace) \o <<"]">>
           ELSE <<"[", "]">>
  ELSE clean

\* the JSON repair of revision 1
Repair(clean) ==
  IF startsWith(clean, <<"[">>) /\ ~endsWith(clean, <<"]">>)
  THEN LET lastClosingBrace == lastIndexOf(clean, "}")
       IN  IF lastClosingBrace # 0
           THEN SubSeq(clean, 1, lastClosingBrace) \o <<"]">>
           ELSE clean
  ELSE clean

\* cleanJson as handed to JSON.parse
cleanJson(rev, text) == IF rev = 1 THEN Repair(StripFences(text)) ELSE StripFences(text)

\* --- what the provider may answer: inputs of the model

\* a Transaction (types.ts), its texts as characters
Txn(date, description, amount, type) ==
  [date |-> date, description |-> description, amount |-> amount, type |-> type]

Salary ==
  Txn(<<"2","0","2","4","-","0","1","-","0","1">>,
      <<"S","a","l","a","r","y">>, 500000, <<"C","R","E","D","I","T">>)

Rent ==
  Txn(<<"2","0","2","4","-","0","1","-","0","2">>,
      <<"R","e","n","t">>, 120000, <<"D","E","B","I","T">>)

\* a description that holds braces
Transfer ==
  Txn(<<"2","0","2","4","-","0","1","-","0","2">>,
      <<"T","R","F","{","7","}","A">>, 2500, <<"D","E","B","I","T">>)

\* a description that holds three backticks
Quote ==
  Txn(<<"2","0","2","4","-","0","1","-","0","3">>,
      <<"R","E","F"," ",Backtick,Backtick,Backtick,"7">>, 100, <<"D","E","B","I","T">>)

\* the transaction lists the provider's complete answers hold
SampleLists ==
  << << >>, <<Salary>>, <<Salary, Rent>>, <<Salary, Transfer>>,
     <<Rent, Salary>>, <<Salary, Salary>>, <<Quote>> >>

\* the lists whose texts are also answered cut off
CutLists == {2, 3, 4}

\* the decimal digits of n >= 0
RECURSIVE IntText(_)
IntText(n) == IF n < 10 THEN <<Digits[n + 1]>> ELSE IntText(n \div 10) \o <<Digits[(n % 10) + 1]>>

Quoted(chars) == <<"\"">> \o chars \o <<"\"">>

KeyDate == <<"d","a","t","e">>

KeyDescription == <<"d","e","s","c","r","i","p","t","i","o","n">>

KeyAmount == <<"a","m","o","u","n","t">>

KeyType == <<"t","y","p","e">>

\* the JSON text of one transaction object, as in the spec's example
ObjectText(x) ==
  <<"{">> \o Quoted(KeyDate) \o <<":">> \o Quoted(x.date)
    \o <<",">> \o Quoted(KeyDescription) \o <<":">> \o Quoted(x.description)
    \o <<",">> \o Quoted(KeyAmount) \o <<":">> \o IntText(x.amount)
    \o <<",">> \o Quoted(KeyType) \o <<":">> \o Quoted(x.type) \o <<"}">>

RECURSIVE JoinObjects(_)
JoinObjects(list) ==
  IF list = << >> THEN << >>
  ELSE IF Len(list) = 1 THEN ObjectText(list[1])
  ELSE ObjectText(list[1]) \o <<",">> \o JoinObjects(Tail(list))

\* the JSON text of a list of transactions
ArrayText(list) == <<"[">> \o JoinObjects(list) \o <<"]">>

FullTexts == [i \in 1..Len(SampleLists) |-> ArrayText(SampleLists[i])]

\* position in the array text at which object k of the list ends
ObjectEnd(list, k) == 1 + Len(JoinObjects(SubSeq(list, 1, k)))

ObjectEnds == [i \in 1..Len(SampleLists) |->
                [k \in 1..Len(SampleLists[i]) |-> ObjectEnd(SampleLists[i], k)]]

\* answers that are no array of transactions
RawTexts ==
  << <<"S","o","r","r","y",","," ","I"," ","c","a","n","n","o","t"," ","r","e",
    "a","d"," ","t","h","i","s"," ","f","i","l","e",".">>,
     <<" ", " ">>,
     <<"n","u","l","l">> >>

\* An answer: sample list `list` cut after `cut` characters (0: not cut),
\* wrapped in a markdown fence or not; or raw text number `raw`.
\* The one-object list is cut at every point, the two-object lists of
\* CutLists at every point from the end of their first object on (before it
\* they are the one-object list cut).
CutsOf(i) ==
  IF Len(SampleLists[i]) > 1 THEN ObjectEnds[i][1]..(Len(FullTexts[i]) - 1)
  ELSE 1..(Len(FullTexts[i]) - 1)

Answers ==
  {[list |-> i, cut |-> 0, fenced |-> f, raw |-> 0] :
      i \in 1..Len(SampleLists), f \in BOOLEAN}
    \cup UNION {{[list |-> i, cut |-> c, fenced |-> FALSE, raw |-> 0] : c \in CutsOf(i)} :
                  i \in CutLists}
    \cup {[list |-> 0, cut |-> 0, fenced |-> FALSE, raw |-> r] : r \in 1..Len(RawTexts)}

NoAnswer == [list |-> 0, cut |-> 0, fenced |-> FALSE, raw |-> 0]

\* the text of an answer
AnswerText(a) ==
  IF a.raw > 0 THEN RawTexts[a.raw]
  ELSE LET body == IF a.cut = 0 THEN FullTexts[a.list]
                   ELSE SubSeq(FullTexts[a.list], 1, a.cut)
       IN  IF a.fenced THEN FenceJson \o <<"\n">> \o body \o <<"\n">> \o Fence
           ELSE body

\* texts of errors the provider call may throw
ProviderFaults ==
  { <<"A","P","I"," ","k","e","y"," ","n","o","t"," ","v","a","l","i","d">>,
    <<"4","0","4"," ","m","o","d","e","l"," ","n","o","t"," ","f","o","u","n",
    "d">>,
    <<"R","E","S","O","U","R","C","E","_","E","X","H","A","U","S","T","E","D",
    ":"," ","Q","u","o","t","a"," ","e","x","c","e","e","d","e","d"," ","(",
    "4","2","9",")">>,
    <<"4","1","3"," ","R","e","q","u","e","s","t"," ","p","a","y","l","o","a",
    "d"," ","t","o","o"," ","l","a","r","g","e">>,
    <<"I","n","p","u","t"," ","t","o","k","e","n"," ","c","o","u","n","t"," ",
    "e","x","c","e","e","d","s"," ","t","h","e"," ","l","i","m","i","t">>,
    <<"5","0","0"," ","I","n","t","e","r","n","a","l"," ","e","r","r","o","r">>,
    <<"B","l","o","c","k","e","d"," ","b","y"," ","S","E","C","U","R","I","T",
    "Y"," ","p","o","l","i","c","y">>,
    <<"f","e","t","c","h"," ","f","a","i","l","e","d">>,
    <<"4","2","9"," ","T","o","o"," ","M","a","n","y"," ","R","e","q","u",
    "e","s","t","s",":"," ","c","h","e","c","k"," ","t","h","e"," ","q","u",
    "o","t","a"," ","o","f"," ","y","o","u","r"," ","A","P","I"," ","k","e",
    "y">>,
    <<"P","a","y","l","o","a","d"," ","t","o","o"," ","l","a","r","g","e",
    ":"," ","o","v","e","r"," ","t","h","e"," ","t","o","k","e","n"," ","l",
    "i","m","i","t">>,
    <<"R","e","q","u","e","s","t"," ","B","L","O","C","K","E","D",":"," ",
    "i","n","t","e","r","n","a","l"," ","d","e","p","e","n","d","e","n","c",
    "y"," ","f","a","i","l","u","r","e">> }

\* the documents a caller passes: a small one with its data-URI header, and
\* two without header, the longest that is not over the 10MB threshold and
\* the shortest that is
Documents ==
  { [header |-> TRUE,  body |-> 1000],
    [header |-> FALSE, body |-> 13981013],
    [header |-> FALSE, body |-> 13981014] }

NoValue == [t |-> "none", v |-> << >>]

EmptyArray == [t |-> "arr", v |-> << >>]

\* the extraction variables while no extraction call is modelled
ExtOff ==
  /\ revision = 1
  /\ apiKey = TRUE
  /\ base64Data = [header |-> TRUE, body |-> 0]
  /\ provider = GEMINI_FLASH
  /\ callerRetry = 0
  /\ retryCount = 0
  /\ callPc = "Off"
  /\ modelName = FlashModel
  /\ invocations = 0
  /\ inFlight = 0
  /\ answer = NoAnswer
  /\ jsonText = << >>
  /\ fault = << >>
  /\ result = NoValue
  /\ errorMessage = << >>
  /\ events = << >>

\* the tax variables while no tax computation is modelled
TaxOff ==
  /\ taxPc = "Off"
  /\ grossIncome = 0
  /\ taxableIncome = 0
  /\ tax = 0
  /\ remaining = 0
  /\ band = 1
  /\ taken = << >>
  /\ taxResult = NoResult

\* a caller is about to call extractTransactionsFromDocument
ExtInit ==
  /\ revision \in Revisions
  /\ apiKey \in BOOLEAN
  /\ base64Data \in Documents
  /\ provider \in ModelProvider
  /\ callerRetry \in {0, 1}
  /\ retryCount = callerRetry
  /\ callPc = "Idle"
  /\ modelName = FlashModel
  /\ invocations = 0
  /\ inFlight = 0
  /\ answer = NoAnswer
  /\ jsonText = << >>
  /\ fault = << >>
  /\ result = NoValue
  /\ errorMessage = << >>
  /\ events = << >>

\* the API key check moved inside the try block: its Error would be caught
\* and classified, and its text holds "api key"
StartAttempt_keyInsideTry(rc) ==
  /\ retryCount' = rc
  /\ IF ~apiKey
     THEN /\ callPc' = "Failed"
          /\ errorMessage' = PrefixTag(revision, provider, FlashModel)
                                \o <<AccessDeniedMessage>>
          /\ UNCHANGED <<modelName, invocations, inFlight, events>>
     ELSE /\ modelName' = selectModel(revision, base64Data, provider)
          /\ invocations' = invocations + 1
          /\ inFlight' = inFlight + 1
          /\ events' = Append(events, "invoke")
          /\ callPc' = "RequestSent"
          /\ UNCHANGED errorMessage

\* The function from its entry to its first await, called with retryCount
\* rc: the API key check (a throw outside the try block), the model
\* selection, the provider request.
StartAttempt(rc) ==
  /\ retryCount' = rc
  /\ IF ~apiKey
     THEN /\ callPc' = "Failed"
          /\ errorMessage' = <<ConfigurationMessage>>
          /\ UNCHANGED <<modelName, invocations, inFlight, events>>
     ELSE /\ modelName' = selectModel(revision, base64Data, provider)
          /\ invocations' = invocations + 1
          /\ inFlight' = inFlight + 1
          /\ events' = Append(events, "invoke")
          /\ callPc' = "RequestSent"
          /\ UNCHANGED errorMessage

\* the caller's call
Call ==
  /\ callPc = "Idle"
  /\ StartAttempt(callerRetry)
  /\ UNCHANGED <<revision, apiKey, base64Data, provider, callerRetry, answer,
                 jsonText, fault, result>>
  /\ UNCHANGED taxVars
  /\ UNCHANGED <<callVars, appVars>>

\* the provider answers with a text
ProviderReturnsText ==
  /\ callPc = "RequestSent"
  /\ \E a \in Answers :
       /\ answer' = a
       /\ jsonText' = AnswerText(a)
  /\ inFlight' = inFlight - 1
  /\ events' = Append(events, "text")
  /\ callPc' = "ResponseReceived"
  /\ UNCHANGED <<revision, apiKey, base64Data, provider, callerRetry, retryCount,
                 modelName, invocations, fault, result, errorMessage>>
  /\ UNCHANGED taxVars
  /\ UNCHANGED <<callVars, appVars>>

\* the provider answers without text
ProviderReturnsEmpty ==
  /\ callPc = "RequestSent"
  /\ answer' = NoAnswer
  /\ jsonText' = << >>
  /\ inFlight' = inFlight - 1
  /\ events' = Append(events, "empty")
  /\ callPc' = "EmptyResponse"
  /\ UNCHANGED <<revision, apiKey, base64Data, provider, callerRetry, retryCount,
                 modelName, invocations, fault, result, errorMessage>>
  /\ UNCHANGED taxVars
  /\ UNCHANGED <<callVars, appVars>>

\* the provider call throws
ProviderThrows ==
  /\ callPc = "RequestSent"
  /\ fault' \in ProviderFaults
  /\ inFlight' = inFlight - 1
  /\ events' = Append(events, "fault")
  /\ callPc' = "ProviderFault"
  /\ UNCHANGED <<revision, apiKey, base64Data, provider, callerRetry, retryCount,
                 modelName, invocations, answer, jsonText, result, errorMessage>>
  /\ UNCHANGED taxVars
  /\ UNCHANGED <<callVars, appVars>>

\* an empty-response branch that would never settle the call
HandleEmpty_stuck ==
  /\ callPc = "EmptyResponse"
  /\ UNCHANGED extVars
  /\ UNCHANGED taxVars
  /\ UNCHANGED <<callVars, appVars>>

\* if (!jsonText): the retry (the function called again with retryCount + 1,
\* its promise returned as it is) or the empty list
HandleEmpty ==
  /\ callPc = "EmptyResponse"
  /\ IF MayRetry(retryCount)
     THEN /\ StartAttempt(retryCount + 1)
          /\ UNCHANGED result
     ELSE /\ result' = EmptyArray
          /\ callPc' = "Done"
          /\ UNCHANGED <<retryCount, modelName, invocations, inFlight, events,
                         errorMessage>>
  /\ UNCHANGED <<revision, apiKey, base64Data, provider, callerRetry, answer,
                 jsonText, fault>>
  /\ UNCHANGED taxVars
  /\ UNCHANGED <<callVars, appVars>>

\* the parsing block: the value JSON.parse gives is returned; when it throws,
\* the Error thrown by the inner catch is caught by the outer catch block
HandleText ==
  /\ callPc = "ResponseReceived"
  /\ LET parsed == JSONparse(cleanJson(revision, jsonText))
     IN  IF parsed.ok
         THEN /\ result' = parsed.val
              /\ callPc' = "Done"
              /\ UNCHANGED errorMessage
         ELSE /\ errorMessage' = CaughtParseFailure[revision][provider][modelName]
              /\ callPc' = "Failed"
              /\ UNCHANGED result
  /\ UNCHANGED <<revision, apiKey, base64Data, provider, callerRetry, retryCount,
                 modelName, invocations, inFlight, answer, jsonText, fault, events>>
  /\ UNCHANGED taxVars
  /\ UNCHANGED <<callVars, appVars>>

\* a catch block that would issue the request again after a provider error
HandleFault_retries ==
  /\ callPc = "ProviderFault"
  /\ IF MayRetry(retryCount)
     THEN /\ StartAttempt(retryCount + 1)
     ELSE /\ errorMessage' = CaughtMessage(revision, provider, modelName, fault)
          /\ callPc' = "Failed"
          /\ UNCHANGED <<retryCount, modelName, invocations, inFlight, events>>
  /\ UNCHANGED <<revision, apiKey, base64Data, provider, callerRetry, answer,
                 jsonText, fault, result>>
  /\ UNCHANGED taxVars
  /\ UNCHANGED <<callVars, appVars>>

\* a catch block that would also catch the rejection of the retry it
\* returned (as with "return await"): the retry's message tagged again
HandleFault_awaitedRetry ==
  /\ callPc = "ProviderFault"
  /\ errorMessage' =
       IF retryCount > callerRetry
       THEN PrefixTag(revision, provider, modelName)
              \o CaughtMessage(revision, provider, modelName, fault)
       ELSE CaughtMessage(revision, provider, modelName, fault)
  /\ callPc' = "Failed"
  /\ UNCHANGED <<revision, apiKey, base64Data, provider, callerRetry, retryCount,
                 modelName, invocations, inFlight, answer, jsonText, fault, result,
                 events>>
  /\ UNCHANGED taxVars
  /\ UNCHANGED <<callVars, appVars>>

\* the outer catch block on an error of the provider call
HandleFault ==
  /\ callPc = "ProviderFault"
  /\ errorMessage' = CaughtMessage(revision, provider, modelName, fault)
  /\ callPc' = "Failed"
  /\ UNCHANGED <<revision, apiKey, base64Data, provider, callerRetry, retryCount,
                 modelName, invocations, inFlight, answer, jsonText, fault, result,
                 events>>
  /\ UNCHANGED taxVars
  /\ UNCHANGED <<callVars, appVars>>

ExtNext ==
  \/ Call
  \/ ProviderReturnsText
  \/ ProviderReturnsEmpty
  \/ ProviderThrows
  \/ HandleEmpty
  \/ HandleText
  \/ HandleFault

\* ------------------------------------------------------------------------
\* Two extraction calls running side by side. A call runs from its entry to
\* its await without interruption, and from the settling of the await to
\* its return, throw or next await: JavaScript runs each stretch to
\* completion, so calls interleave at their awaits only. The calls share
\* the module's client and process.env.API_KEY and nothing else.
\* ------------------------------------------------------------------------

CallIds == {"A", "B"}

\* the documents and provider responses of the two calls
ConcurrentDocuments ==
  { [header |-> TRUE,  body |-> 1000],
    [header |-> FALSE, body |-> 13981014] }

ConcurrentResponses ==
  { [kind |-> "empty", answer |-> NoAnswer, fault |-> << >>],
    [kind |-> "text",  answer |-> [list |-> 3, cut |-> 0, fenced |-> TRUE, raw |-> 0],
     fault |-> << >>],
    [kind |-> "text",  answer |-> [list |-> 0, cut |-> 0, fenced |-> FALSE, raw |-> 1],
     fault |-> << >>],
    [kind |-> "fault", answer |-> NoAnswer,
     fault |-> <<"f","e","t","c","h"," ","f","a","i","l","e","d">>] }

\* a call that has not been entered: its arguments
IdleCall(prov, doc) ==
  [prov |-> prov, doc |-> doc, pc |-> "Idle", rc |-> 0, model |-> FlashModel,
   invocations |-> 0, seen |-> << >>, result |-> NoValue, message |-> << >>]

\* the function from its entry to its first await, entered with retryCount rc
AttemptStart(st, rc) ==
  IF ~apiKey
  THEN [st EXCEPT !.rc = rc, !.pc = "Failed", !.message = <<ConfigurationMessage>>]
  ELSE [st EXCEPT !.rc = rc, !.pc = "RequestSent",
                  !.model = selectModel(revision, st.doc, st.prov),
                  !.invocations = st.invocations + 1]

\* the function from the settling of its await on, the retryCount of the
\* frame being rc
Continue(st, rc, r) ==
  LET got == [st EXCEPT !.seen = Append(st.seen, r)]
  IN  IF r.kind = "empty"
      THEN IF MayRetry(rc) THEN AttemptStart(got, rc + 1)
           ELSE [got EXCEPT !.pc = "Done", !.result = EmptyArray]
      ELSE IF r.kind = "text"
      THEN LET parsed == JSONparse(cleanJson(revision, AnswerText(r.answer)))
           IN  IF parsed.ok
               THEN [got EXCEPT !.pc = "Done", !.result = parsed.val]
               ELSE [got EXCEPT !.pc = "Failed",
                                !.message = CaughtParseFailure[revision][st.prov][st.model]]
      ELSE [got EXCEPT !.pc = "Failed",
                       !.message = CaughtMessage(revision, st.prov, st.model, r.fault)]

\* a retry count kept in one place for all calls
retryCountOf_shared(c) ==
  IF \E d \in CallIds : calls[d].rc > 0 THEN 1 ELSE 0

\* retryCount is a parameter of the function: each call has its own
retryCountOf(c) == calls[c].rc

CallsInit ==
  /\ calls \in [CallIds -> {IdleCall(p, d) : p \in ModelProvider, d \in ConcurrentDocuments}]
  /\ revision \in Revisions
  /\ apiKey \in BOOLEAN
  /\ base64Data = [header |-> TRUE, body |-> 0]
  /\ provider = GEMINI_FLASH
  /\ callerRetry = 0
  /\ retryCount = 0
  /\ callPc = "Off"
  /\ modelName = FlashModel
  /\ invocations = 0
  /\ inFlight = 0
  /\ answer = NoAnswer
  /\ jsonText = << >>
  /\ fault = << >>
  /\ result = NoValue
  /\ errorMessage = << >>
  /\ events = << >>

\* a caller enters call c
CallStarts(c) ==
  /\ calls[c].pc = "Idle"
  /\ calls' = [calls EXCEPT ![c] = AttemptStart(calls[c], 0)]
  /\ UNCHANGED <<taxVars, extVars, appVars>>

\* the provider request of call c settles and the call runs on
CallSettles(c) ==
  /\ calls[c].pc = "RequestSent"
  /\ \E r \in ConcurrentResponses :
       calls' = [calls EXCEPT ![c] = Continue(calls[c], retryCountOf(c), r)]
  /\ UNCHANGED <<taxVars, extVars, appVars>>

CallsNext == \E c \in CallIds : CallStarts(c) \/ CallSettles(c)

\* no concurrent calls are modelled
CallsOff == calls = << >>

\* ------------------------------------------------------------------------
\* Dashboard (components/Dashboard)
\* ------------------------------------------------------------------------

\* TransactionType (types.ts)
CreditText == <<"C","R","E","D","I","T">>

DebitText == <<"D","E","B","I","T">>

\* transactions.filter(t => kinds holds t.type).reduce((sum, t) => sum + t.amount, sum)
RECURSIVE AmountSum(_, _, _)
AmountSum(txs, kinds, sum) ==
  IF txs = << >> THEN sum
  ELSE AmountSum(Tail(txs), kinds,
                 IF Head(txs).type \in kinds THEN sum + Head(txs).amount ELSE sum)

\* the filter on the type left out
totalCredit_all(txs) == AmountSum(txs, {CreditText, DebitText}, 0)

totalCredit(txs) == AmountSum(txs, {CreditText}, 0)

totalDebit(txs) == AmountSum(txs, {DebitText}, 0)

\* const taxData = calculateNigerianPIT(totalCredit)
DashboardTax(txs) == calculateNigerianPIT(totalCredit(txs))

\* ------------------------------------------------------------------------
\* FileUpload (components/FileUpload, two copies) and App
\* ------------------------------------------------------------------------

\* files being read and extractions under way, together
MaxPending == 2

UploadRevs == {1, 2}

HasOnboarded == <<"hasOnboarded", "true">>

allowedTypes == {"image/jpeg", "image/png", "application/pdf"}

\* 5 * 1024 * 1024 in the first copy, 500 * 1024 * 1024 in the second
SizeCeiling(rev) == IF rev = 1 THEN 5 * 1024 * 1024 ELSE 500 * 1024 * 1024

\* the files a user submits: each type at the ceiling and one byte over it
FileTypes == {"application/pdf", "image/png", "text/csv"}

FileSizes(rev) == {SizeCeiling(rev), SizeCeiling(rev) + 1}

Files(rev) == [type : FileTypes, size : FileSizes(rev)]

\* the size check left out
Rejection_typeOnly(rev, file) ==
  IF file.type \notin allowedTypes THEN "format" ELSE "none"

\* the validation of processFile: which error it sets, "none" when it reads the file
Rejection(rev, file) ==
  IF file.type \notin allowedTypes THEN "format"
  ELSE IF file.size > SizeCeiling(rev) THEN "size"
  ELSE "none"

\* reader.onprogress: Math.round((loaded / total) * 100)
ProgressSteps == {0, 50, 100}

\* what an extraction resolves with
ExtractedLists == {SampleLists[n] : n \in 1..Len(SampleLists)}

Remove(seq, i) == SubSeq(seq, 1, i - 1) \o SubSeq(seq, i + 1, Len(seq))

\* every read of an unmounted FileUpload sets the state of nothing
Unmounted(rds) == [i \in 1..Len(rds) |-> [rds[i] EXCEPT !.stale = TRUE]]

\* App after its first render and its effect; FileUpload freshly mounted
AppInit ==
  /\ storage \in {{}, {HasOnboarded}}
  /\ showOnboarding = (storage = {})
  /\ transactions = << >>
  /\ isProcessing = FALSE
  /\ view = "upload"
  /\ taxData = NoResult
  /\ uploadRev \in UploadRevs
  /\ uploadProvider = GEMINI_FLASH
  /\ uploadError = "none"
  /\ uploadProgress = 0
  /\ reads = << >>
  /\ jobs = << >>
  /\ resetState = "none"

\* the App variables while no App is modelled
AppOff ==
  /\ storage = {}
  /\ showOnboarding = FALSE
  /\ transactions = << >>
  /\ isProcessing = FALSE
  /\ view = "Off"
  /\ taxData = NoResult
  /\ uploadRev = 1
  /\ uploadProvider = GEMINI_FLASH
  /\ uploadError = "none"
  /\ uploadProgress = 0
  /\ reads = << >>
  /\ jobs = << >>
  /\ resetState = "none"

\* handleCompleteOnboarding
HandleCompleteOnboarding ==
  /\ view \in {"upload", "dashboard"}
  /\ showOnboarding
  /\ storage' = storage \cup {HasOnboarded}
  /\ showOnboarding' = FALSE
  /\ UNCHANGED <<transactions, isProcessing, view, taxData, uploadRev, uploadProvider,
                 uploadError, uploadProgress, reads, jobs, resetState>>
  /\ UNCHANGED <<taxVars, extVars, callVars>>

\* the Docs button: setShowOnboarding(true)
OpenDocs ==
  /\ view \in {"upload", "dashboard"}
  /\ ~showOnboarding
  /\ showOnboarding' = TRUE
  /\ UNCHANGED <<storage, transactions, isProcessing, view, taxData, uploadRev,
                 uploadProvider, uploadError, uploadProgress, reads, jobs, resetState>>
  /\ UNCHANGED <<taxVars, extVars, callVars>>

\* the provider buttons of FileUpload
SetProvider(prov) ==
  /\ view = "upload"
  /\ uploadRev = 2 => ~(isProcessing \/ (uploadProgress > 0 /\ uploadProgress < 100))
  /\ uploadProvider' = prov
  /\ UNCHANGED <<storage, showOnboarding, transactions, isProcessing, view, taxData,
                 uploadRev, uploadError, uploadProgress, reads, jobs, resetState>>
  /\ UNCHANGED <<taxVars, extVars, callVars>>

\* processFile, up to reader.readAsDataURL(file)
ProcessFile(file) ==
  LET why == Rejection(uploadRev, file) IN
  /\ why = "none" => Len(reads) + Len(jobs) < MaxPending
  /\ uploadError' = why
  /\ uploadProgress' = 0
  /\ reads' = IF why = "none"
              THEN Append(reads, [file |-> file, stage |-> "reading", stale |-> FALSE])
              ELSE reads
  /\ resetState' = IF resetState = "reset" THEN "submitted" ELSE resetState
  /\ UNCHANGED <<storage, showOnboarding, transactions, isProcessing, view, taxData,
                 uploadRev, uploadProvider, jobs>>
  /\ UNCHANGED <<taxVars, extVars, callVars>>

\* onDrop of the drop zone: handleFiles(e.dataTransfer.files)
Drop(file) ==
  /\ view = "upload"
  /\ uploadRev = 2 => ~isProcessing
  /\ ProcessFile(file)

\* onClick of the drop zone, then onChange of the file input
Select(file) ==
  /\ view = "upload"
  /\ ~isProcessing
  /\ uploadRev = 2 => uploadProgress = 0
  /\ ProcessFile(file)

\* reader.onloadstart and reader.onprogress of the second copy
ReadProgress(i) ==
  /\ uploadRev = 2
  /\ reads[i].stage = "reading"
  /\ ~reads[i].stale
  /\ \E p \in ProgressSteps : uploadProgress' = p
  /\ UNCHANGED <<storage, showOnboarding, transactions, isProcessing, view, taxData,
                 uploadRev, uploadProvider, uploadError, reads, jobs, resetState>>
  /\ UNCHANGED <<taxVars, extVars, callVars>>

\* the Cancel button of the second copy: the read itself goes on
CancelUpload ==
  /\ view = "upload"
  /\ uploadRev = 2
  /\ ~isProcessing
  /\ uploadProgress > 0
  /\ uploadProgress < 100
  /\ uploadProgress' = 0
  /\ UNCHANGED <<storage, showOnboarding, transactions, isProcessing, view, taxData,
                 uploadRev, uploadProvider, uploadError, reads, jobs, resetState>>
  /\ UNCHANGED <<taxVars, extVars, callVars>>

\* the dismiss button of the error banner of the second copy
DismissError ==
  /\ view = "upload"
  /\ uploadRev = 2
  /\ uploadError # "none"
  /\ uploadError' = "none"
  /\ UNCHANGED <<storage, showOnboarding, transactions, isProcessing, view, taxData,
                 uploadRev, uploadProvider, uploadProgress, reads, jobs, resetState>>
  /\ UNCHANGED <<taxVars, extVars, callVars>>

\* handleFileProcess up to its await: setIsProcessing(true) and the call;
\* the payload and the provider go to the service and are not kept here
StartExtraction(rd) ==
  /\ isProcessing' = TRUE
  /\ jobs' = Append(jobs, [file |-> rd.file])

\* reader.onload: the first copy calls onFileProcess, the second sets a timer
ReaderLoads(i) ==
  /\ i \in 1..Len(reads)
  /\ reads[i].stage = "reading"
  /\ IF uploadRev = 1
     THEN /\ reads' = Remove(reads, i)
          /\ StartExtraction(reads[i])
          /\ UNCHANGED uploadProgress
     ELSE /\ reads' = [reads EXCEPT ![i].stage = "timer"]
          /\ uploadProgress' = IF reads[i].stale THEN uploadProgress ELSE 100
          /\ UNCHANGED <<isProcessing, jobs>>
  /\ UNCHANGED <<storage, showOnboarding, transactions, view, taxData, uploadRev,
                 uploadProvider, uploadError, resetState>>
  /\ UNCHANGED <<taxVars, extVars, callVars>>

\* the timer of the second copy: onFileProcess after 500 ms
TimerFires(i) ==
  /\ i \in 1..Len(reads)
  /\ reads[i].stage = "timer"
  /\ reads' = Remove(reads, i)
  /\ StartExtraction(reads[i])
  /\ UNCHANGED <<storage, showOnboarding, transactions, view, taxData, uploadRev,
                 uploadProvider, uploadError, uploadProgress, resetState>>
  /\ UNCHANGED <<taxVars, extVars, callVars>>

\* reader.onerror
ReaderFails(i) ==
  /\ i \in 1..Len(reads)
  /\ reads[i].stage = "reading"
  /\ reads' = Remove(reads, i)
  /\ uploadError' = IF reads[i].stale THEN uploadError ELSE "read"
  /\ uploadProgress' = IF reads[i].stale THEN uploadProgress ELSE 0
  /\ UNCHANGED <<storage, showOnboarding, transactions, isProcessing, view, taxData,
                 uploadRev, uploadProvider, jobs, resetState>>
  /\ UNCHANGED <<taxVars, extVars, callVars>>

\* the extracted transactions also written to localStorage
ExtractionResolves_persists(i, extractedData) ==
  /\ i \in 1..Len(jobs)
  /\ jobs' = Remove(jobs, i)
  /\ transactions' = extractedData
  /\ storage' = storage \cup {<<"transactions", extractedData>>}
  /\ view' = "dashboard"
  /\ taxData' = DashboardTax(extractedData)
  /\ isProcessing' = FALSE
  /\ uploadProvider' = GEMINI_FLASH
  /\ uploadError' = "none"
  /\ uploadProgress' = 0
  /\ reads' = Unmounted(reads)
  /\ UNCHANGED <<showOnboarding, uploadRev, resetState>>
  /\ UNCHANGED <<taxVars, extVars, callVars>>

\* the try block after the await, then finally; FileUpload is unmounted and
\* the Dashboard renders the new list
ExtractionResolves(i, extractedData) ==
  /\ i \in 1..Len(jobs)
  /\ jobs' = Remove(jobs, i)
  /\ transactions' = extractedData
  /\ view' = "dashboard"
  /\ taxData' = DashboardTax(extractedData)
  /\ isProcessing' = FALSE
  /\ uploadProvider' = GEMINI_FLASH
  /\ uploadError' = "none"
  /\ uploadProgress' = 0
  /\ reads' = Unmounted(reads)
  /\ UNCHANGED <<storage, showOnboarding, uploadRev, resetState>>
  /\ UNCHANGED <<taxVars, extVars, callVars>>

\* a catch block that calls handleFileProcess again
ExtractionRejects_retries(i) ==
  /\ i \in 1..Len(jobs)
  /\ jobs' = Append(Remove(jobs, i), jobs[i])
  /\ isProcessing' = FALSE
  /\ UNCHANGED <<storage, showOnboarding, transactions, view, taxData, uploadRev,
                 uploadProvider, uploadError, uploadProgress, reads, resetState>>
  /\ UNCHANGED <<taxVars, extVars, callVars>>

\* the catch block, then finally
ExtractionRejects(i) ==
  /\ i \in 1..Len(jobs)
  /\ jobs' = Remove(jobs, i)
  /\ isProcessing' = FALSE
  /\ UNCHANGED <<storage, showOnboarding, transactions, view, taxData, uploadRev,
                 uploadProvider, uploadError, uploadProgress, reads, resetState>>
  /\ UNCHANGED <<taxVars, extVars, callVars>>

\* handleReset: the logo and the New Scan button
HandleReset ==
  /\ view \in {"upload", "dashboard"}
  /\ transactions' = << >>
  /\ view' = "upload"
  /\ taxData' = NoResult
  /\ resetState' = "reset"
  /\ UNCHANGED <<storage, showOnboarding, isProcessing, uploadRev, uploadProvider,
                 uploadError, uploadProgress, reads, jobs>>
  /\ UNCHANGED <<taxVars, extVars, callVars>>

InitExtract == ExtInit /\ TaxOff /\ CallsOff /\ AppOff

\* one extraction call on its own
SpecExtract == InitExtract /\ [][ExtNext]_vars

\* the steps of the function other than the parsing block: run by the
\* JavaScript event loop as soon as they can run
FunctionSteps == Call \/ HandleEmpty \/ HandleFault

\* the steps of the provider: a request in flight is answered or fails
ProviderSteps == ProviderReturnsText \/ ProviderReturnsEmpty \/ ProviderThrows

\* Weak fairness of the parsing block, WF_vars(HandleText), with its
\* enabling condition written out: HandleText can run, and then changes
\* callPc, exactly when a response text has been received.
HandleTextFair ==
  (<>[](callPc = "ResponseReceived")) => ([]<><<HandleText>>_vars)

\* one extraction call whose continuations are run and whose provider
\* requests all settle
SpecExtractFair ==
  /\ InitExtract
  /\ [][ExtNext]_vars
  /\ WF_vars(FunctionSteps)
  /\ WF_vars(ProviderSteps)
  /\ HandleTextFair

InitTax == TaxInit /\ ExtOff /\ CallsOff /\ AppOff

\* the tax engine called on its own
SpecTax == InitTax /\ [][TaxNext]_vars

InitCalls == CallsInit /\ TaxOff /\ AppOff

\* two extraction calls side by side
SpecCalls == InitCalls /\ [][CallsNext]_vars

InitApp == AppInit /\ TaxOff /\ ExtOff /\ CallsOff

AppNext ==
  \/ HandleCompleteOnboarding
  \/ OpenDocs
  \/ \E prov \in {GEMINI_FLASH, GROK_BETA} : SetProvider(prov)
  \/ \E file \in Files(uploadRev) : Drop(file)
  \/ \E file \in Files(uploadRev) : Select(file)
  \/ \E i \in 1..Len(reads) : ReadProgress(i)
  \/ CancelUpload
  \/ DismissError
  \/ \E i \in 1..Len(reads) : ReaderLoads(i)
  \/ \E i \in 1..Len(reads) : TimerFires(i)
  \/ \E i \in 1..Len(reads) : ReaderFails(i)
  \/ \E i \in 1..Len(jobs), l \in ExtractedLists : ExtractionResolves(i, l)
  \/ \E i \in 1..Len(jobs) : ExtractionRejects(i)
  \/ HandleReset

SpecApp == InitApp /\ [][AppNext]_vars

\* the program: the tax engine, the extraction service, two calls of it
\* side by side, or the App
Init == InitTax \/ InitExtract \/ InitCalls \/ InitApp

Next == TaxNext \/ ExtNext \/ CallsNext \/ AppNext

Spec == Init /\ [][Next]_vars

\* ------------------------------------------------------------------------
\* Claims about the tax engine
\* ------------------------------------------------------------------------

TaxDone == taxPc = "done"

\* C1: for every grossIncome >= 0 the returned consolidatedRelief is
\* max(200000, 1% of grossIncome) + 20% of grossIncome, and the returned
\* taxableIncome is max(0, grossIncome - consolidatedRelief).
\* (stated in hundredths: 100 * relief = max(20000000, g) + 20 * g)
C1_ReliefAndTaxable ==
  (TaxDone /\ grossIncome >= 0) =>
    LET r == taxResult.consolidatedRelief
        t == taxResult.taxableIncome
    IN  /\ 100 * r = (IF grossIncome >= 20000000 THEN grossIncome ELSE 20000000)
                       + 20 * grossIncome
        /\ t = (IF grossIncome - r >= 0 THEN grossIncome - r ELSE 0)

\* an income above 20000000, where 1% of the income is the base relief
C1_Witness ==
  /\ TaxDone
  /\ grossIncome = 20100000
  /\ taxResult.consolidatedRelief = 201000 + 4020000
  /\ taxResult.taxableIncome = 15879000

\* the part of x lying between lo and hi
Between(x, lo, hi) == IF x <= lo THEN 0 ELSE IF x >= hi THEN hi - lo ELSE x - lo

\* C2: totalTax is the sum over the ordered bands (300000 at 7%, 300000 at
\* 11%, 500000 at 15%, 500000 at 19%, 1600000 at 21%, the rest at 24%) of the
\* part of taxableIncome falling in the band times the band's rate.
C2_BandedTax ==
  TaxDone =>
    LET t == taxResult.taxableIncome
    IN  taxResult.totalTax =
            7  * Between(t, 0, 300000)
          + 11 * Between(t, 300000, 600000)
          + 15 * Between(t, 600000, 1100000)
          + 19 * Between(t, 1100000, 1600000)
          + 21 * Between(t, 1600000, 3200000)
          + 24 * (IF t > 3200000 THEN t - 3200000 ELSE 0)

\* a taxable income that reaches the unbounded band
C2_Witness ==
  /\ TaxDone
  /\ taxResult.taxableIncome = 3800000
  /\ taxResult.totalTax = 70400000

\* C3: totalTax is never negative and is non-decreasing in grossIncome: for
\* all 0 <= g1 <= g2, the totalTax of g1 is at most the totalTax of g2.
C3_Monotone ==
  (TaxDone /\ grossIncome >= 0) =>
    /\ taxResult.totalTax >= 0
    /\ \A g1 \in GrossInputs :
         (0 <= g1 /\ g1 <= grossIncome) =>
           calculateNigerianPIT(g1).totalTax <= taxResult.totalTax

\* a taxed income, with a smaller income that is taxed strictly less
C3_Witness ==
  /\ TaxDone
  /\ grossIncome = 1000000
  /\ taxResult.totalTax > calculateNigerianPIT(650000).totalTax
  /\ calculateNigerianPIT(650000).totalTax > 0

RECURSIVE SumAmounts(_)
SumAmounts(s) == IF s = << >> THEN 0 ELSE Head(s).amount + SumAmounts(Tail(s))

\* taxable income at which band i starts
BandStart(i) ==
  CASE i = 1 -> 0
    [] i = 2 -> 300000
    [] i = 3 -> 600000
    [] i = 4 -> 1100000
    [] i = 5 -> 1600000
    [] i = 6 -> 3200000

\* C4: in the band loop the amounts taxed so far plus remaining equal
\* taxableIncome at every step, so that they sum to exactly taxableIncome
\* when the loop ends; the loop consumes exactly the bands that start below
\* taxableIncome, each with a positive amount, so that a taxableIncome
\* on a band boundary consumes nothing of the next band.
C4_LoopAccounting ==
  /\ (taxPc \in {"loop", "done"}) =>
        SumAmounts(taken) + remaining = taxableIncome
  /\ TaxDone =>
        /\ SumAmounts(taken) = taxableIncome
        /\ Len(taken) = Cardinality({i \in 1..6 : BandStart(i) < taxableIncome})
        /\ \A i \in 1..Len(taken) : taken[i].amount > 0

\* taxableIncome exactly 300000: only the first band is consumed
C4_Witness ==
  /\ TaxDone
  /\ taxableIncome = 300000
  /\ Len(taken) = 1
  /\ taken[1].amount = 300000

\* C5: effectiveRate is totalTax / grossIncome * 100 when grossIncome > 0,
\* is 0 when grossIncome is 0, and lies in [0, 100] for grossIncome >= 0.
\* (totalTax is in hundredths, so the rate num/den is totalTax / grossIncome:
\* for some k, grossIncome = k * den and totalTax = k * num)
C5_EffectiveRate ==
  (TaxDone /\ grossIncome >= 0) =>
    LET e == taxResult.effectiveRate
    IN  /\ e.den > 0
        /\ grossIncome > 0 =>
             LET k == grossIncome \div e.den
             IN  /\ grossIncome = k * e.den
                 /\ taxResult.totalTax = k * e.num
        /\ grossIncome = 0 => e.num = 0
        /\ 0 <= e.num
        /\ e.num <= 100 * e.den

\* a rate that is not a whole percent: 560000 / 4250000 * 100 = 224/17
C5_Witness ==
  /\ TaxDone
  /\ grossIncome = 4250000
  /\ taxResult.effectiveRate = [num |-> 224, den |-> 17]

\* C6: calculateNigerianPIT(1000000) returns consolidatedRelief 400000,
\* taxableIncome 600000, totalTax 54000 (21000 from the first band plus
\* 33000 from the second) and effectiveRate 5.4 (27/5).
C6_OneMillion ==
  (TaxDone /\ grossIncome = 1000000) =>
    /\ taxResult = [grossIncome        |-> 1000000,
                    consolidatedRelief |-> 400000,
                    taxableIncome      |-> 600000,
                    totalTax           |-> 5400000,
                    effectiveRate      |-> [num |-> 27, den |-> 5]]
    /\ taken = << [amount |-> 300000, tax |-> 2100000],
                  [amount |-> 300000, tax |-> 3300000] >>

C6_Witness ==
  /\ TaxDone
  /\ grossIncome = 1000000
  /\ taxResult.totalTax = 5400000

\* the returned record is the one the function computes in one go
TaxResultAgrees == TaxDone => taxResult = calculateNigerianPIT(grossIncome)

\* ------------------------------------------------------------------------
\* Claims about extractTransactionsFromDocument
\* ------------------------------------------------------------------------

\* number of occurrences of x in seq
Count(seq, x) == Cardinality({i \in 1..Len(seq) : seq[i] = x})

LastEvent == IF events = << >> THEN "none" ELSE events[Len(events)]

\* the first provider request of the call was answered without text
FirstResponseEmpty == Len(events) >= 2 /\ events[2] = "empty"

\* the empty first response has been handled
FirstEmptyHandled ==
  FirstResponseEmpty /\ ~(Len(events) = 2 /\ callPc = "EmptyResponse")

\* both provider requests were answered without text and the second empty
\* response has been handled
BothEmptyHandled ==
  events = <<"invoke", "empty", "invoke", "empty">> /\ callPc # "EmptyResponse"

\* C7: in a call entered with retryCount 0, an empty first response is
\* followed by exactly one retry of the request (same document, same
\* provider, same model, retryCount 1), and when the retry's response is
\* empty too the call succeeds with the empty list and raises no error.
C7_EmptyRetriesOnce ==
  callerRetry = 0 =>
    /\ FirstEmptyHandled =>
         /\ Len(events) >= 3
         /\ events[3] = "invoke"
         /\ Count(events, "invoke") = 2
         /\ invocations = 2
         /\ retryCount = 1
         /\ modelName = selectModel(revision, base64Data, provider)
    /\ BothEmptyHandled =>
         /\ callPc = "Done"
         /\ result = EmptyArray
         /\ errorMessage = << >>

C7_Witness ==
  /\ callerRetry = 0
  /\ events = <<"invoke", "empty", "invoke", "empty">>
  /\ callPc = "Done"
  /\ result = EmptyArray
  /\ invocations = 2

\* C8: a call entered with retryCount 0 invokes the provider at most twice;
\* a second invocation comes only directly after an empty first response;
\* at most one request is in flight at any time; nothing is invoked after a
\* response with text or after a provider error.
C8_AtMostTwoInvocations ==
  callerRetry = 0 =>
    /\ invocations <= 2
    /\ invocations = Count(events, "invoke")
    /\ inFlight = (IF callPc = "RequestSent" THEN 1 ELSE 0)
    /\ \A i \in 2..Len(events) : events[i] = "invoke" => events[i - 1] = "empty"
    /\ \A i \in 1..(Len(events) - 1) : events[i] \notin {"text", "fault"}

C8_Witness ==
  /\ callerRetry = 0
  /\ invocations = 2
  /\ events = <<"invoke", "empty", "invoke", "fault">>
  /\ callPc = "Failed"

\* the last part of the message the caller sees (after a tag, if any)
SurfacedMessage == errorMessage[Len(errorMessage)]

\* the call failed in the parsing block: the provider gave a non-empty text
\* that JSON.parse (after the clean-up) rejected
ParseFailed == callPc = "Failed" /\ LastEvent = "text"

\* C9: when the non-empty response text cannot be parsed, the error that
\* reaches the caller is the data format error, "Failed to parse the
\* financial data. The document might be illegible.".
C9_ParseFailureIsDataFormatError ==
  ParseFailed => SurfacedMessage = DataFormatMessage

\* What the code does instead: the outer catch block classifies the data
\* format error like any other and no rule matches its text.
ParseFailureIsGeneric ==
  ParseFailed => SurfacedMessage = GenericMessage

\* the value JSON.parse gives for the JSON text of a transaction
TxnValue(x) ==
  [t |-> "obj",
   v |-> << [k |-> KeyDate,        v |-> [t |-> "str", v |-> x.date]],
            [k |-> KeyDescription, v |-> [t |-> "str", v |-> x.description]],
            [k |-> KeyAmount,      v |-> [t |-> "num", v |-> x.amount]],
            [k |-> KeyType,        v |-> [t |-> "str", v |-> x.type]] >>]

ListValue(list) == [t |-> "arr", v |-> [k \in 1..Len(list) |-> TxnValue(list[k])]]

\* number of objects of the answer's list that are complete before its cut
CompleteBefore(a) ==
  Cardinality({k \in 1..Len(SampleLists[a.list]) : ObjectEnds[a.list][k] <= a.cut})

\* the answer is a transaction array cut off after at least one complete
\* object
TruncatedArray(a) == a.raw = 0 /\ a.cut > 0 /\ CompleteBefore(a) >= 1

\* the condition under which the repair applies
RepairApplies(text) ==
  LET clean == StripFences(text)
  IN  startsWith(clean, <<"[">>) /\ ~endsWith(clean, <<"]">>)

\* C10: (revision with the repair step) a response text that starts with
\* "[", does not end with "]" and is a transaction array cut off after one or
\* more complete objects is parsed to exactly the complete objects before
\* the cut.
C10_TruncatedArrayRecovered ==
  (/\ revision = 1
   /\ callPc \in {"Done", "Failed"}
   /\ LastEvent = "text"
   /\ TruncatedArray(answer)
   /\ RepairApplies(jsonText))
  => /\ callPc = "Done"
     /\ result = ListValue(SubSeq(SampleLists[answer.list], 1, CompleteBefore(answer)))

\* What holds of the repair: it recovers the complete objects when the cut
\* fragment holds no "}".
FragmentHasBrace(a) ==
  \E i \in (ObjectEnds[a.list][CompleteBefore(a)] + 1)..a.cut :
     FullTexts[a.list][i] = "}"

RepairRecoversBraceFreeFragment ==
  (/\ revision = 1
   /\ callPc \in {"Done", "Failed"}
   /\ LastEvent = "text"
   /\ TruncatedArray(answer)
   /\ ~FragmentHasBrace(answer))
  => /\ callPc = "Done"
     /\ result = ListValue(SubSeq(SampleLists[answer.list], 1, CompleteBefore(answer)))

\* the model selection of the call has run
ModelSelected == apiKey /\ callPc # "Idle"

\* the model the selection is to give: the high-context model when the
\* payload is over the 10MB threshold or the caller chose a high-capacity
\* provider, the fast model otherwise
ExpectedModel ==
  IF OverTenMB(cleanBase64Length(base64Data))
       \/ provider \in {GEMINI_PRO, GROK_BETA}
  THEN ProModel
  ELSE FlashModel

\* C11: the high-context model is selected whenever the approximate payload
\* size is over the 10MB threshold (also for a caller who asked for the fast
\* tier) and whenever the caller chose a high-capacity provider; the fast
\* model in every other case.
C11_ModelSelection == ModelSelected => modelName = ExpectedModel

\* What holds: the first copy of the function selects as C11 says; the
\* second selects by the provider choice alone.
SelectionInRevision1 ==
  (ModelSelected /\ revision = 1) => modelName = ExpectedModel

SelectionInRevision2 ==
  (ModelSelected /\ revision = 2) =>
     modelName = (IF provider \in {GEMINI_PRO, GROK_BETA} THEN ProModel ELSE FlashModel)

\* the call failed in the catch block on an error of the provider request
FaultHandled == callPc = "Failed" /\ LastEvent = "fault"

\* C12: a provider error whose text contains "429" is surfaced as the
\* rate-limit message, whatever else the text holds.
C12_429IsRateLimited ==
  (FaultHandled /\ includes(fault, Pat_429)) => SurfacedMessage = RateLimitedMessage

\* What holds: "429" gives the rate-limit message when the lower-cased text
\* holds none of the patterns tested before it.
MatchesBefore429(errStr) ==
  \E p \in {Pat_api_key, Pat_403, Pat_404, Pat_not_found} : includes(errStr, p)

RateLimitedWhenNothingEarlier ==
  (FaultHandled /\ includes(fault, Pat_429) /\ ~MatchesBefore429(toLowerCase(fault)))
    => SurfacedMessage = RateLimitedMessage

\* the user-facing messages of the function
FixedMessages ==
  { ConfigurationMessage, GenericMessage, AccessDeniedMessage,
    ModelUnavailableMessage(1), ModelUnavailableMessage(2), RateLimitedMessage,
    PayloadTooLargeMessage, ContentTooDenseMessage, TooLargeForFlashMessage,
    TokenLimitMessage, UnsupportedComplexityMessage, ContentBlockedMessage }

TierTags == {ProAuditTag, GrokBetaTag}

\* C13: the message of every failed call is one of the fixed user-facing
\* messages, alone or behind one tier tag, and nothing else: no part of it
\* comes from the text of the provider's error. A call that has not failed
\* has no message.
C13_FixedMessagesOnly ==
  /\ callPc = "Failed" =>
       \/ errorMessage \in {<<m>> : m \in FixedMessages}
       \/ errorMessage \in {<<t, m>> : t \in TierTags, m \in FixedMessages}
  /\ callPc # "Failed" => errorMessage = << >>

C13_Witness ==
  /\ FaultHandled
  /\ ~(\E i \in 1..Len(ErrorRules(revision, provider)) :
         RuleMatches(ErrorRules(revision, provider)[i], toLowerCase(fault)))
  /\ errorMessage = <<ProAuditTag, GenericMessage>>

\* C14: without a credential the call fails at once with the configuration
\* message: no provider request, no retry, no reclassification, no tag.
C14_NoCredential ==
  (~apiKey /\ callPc # "Idle") =>
     /\ callPc = "Failed"
     /\ errorMessage = <<ConfigurationMessage>>
     /\ invocations = 0
     /\ inFlight = 0
     /\ events = << >>
     /\ retryCount = callerRetry
     /\ result = NoValue

C14_Witness ==
  /\ ~apiKey
  /\ provider = GROK_BETA
  /\ callPc = "Failed"
  /\ errorMessage = <<ConfigurationMessage>>

\* the patterns of the rules other than the security / blocked rule, of both
\* copies of the function
OtherPatterns ==
  { Pat_api_key, Pat_403, Pat_404, Pat_not_found, Pat_quota, Pat_429,
    Pat_too_large, Pat_payload, Pat_413, Pat_token_count, Pat_limit,
    Pat_1048576, Pat_dependency, Pat_internal }

\* the text signals a security / blocked condition and matches no other rule
SafetyRejection(text) ==
  LET errStr == toLowerCase(text)
  IN  /\ includes(errStr, Pat_security) \/ includes(errStr, Pat_blocked)
      /\ ~(\E p \in OtherPatterns : includes(errStr, p))

\* C15: a provider failure that is a safety-filter rejection (its text
\* signals a security / blocked condition and matches no earlier rule) is
\* surfaced as the content-blocked message, which suggests a different file.
C15_SafetyRejectionIsContentBlocked ==
  (FaultHandled /\ SafetyRejection(fault)) => SurfacedMessage = ContentBlockedMessage

\* What holds: the second copy of the function surfaces it so; the first
\* has no such rule and gives the generic message.
SafetyRejectionInRevision2 ==
  (FaultHandled /\ SafetyRejection(fault) /\ revision = 2)
    => SurfacedMessage = ContentBlockedMessage

SafetyRejectionInRevision1 ==
  (FaultHandled /\ SafetyRejection(fault) /\ revision = 1)
    => SurfacedMessage = GenericMessage

\* the rules of a copy of the function whose substrings occur in the
\* lower-cased text
Hits(rev, prov, text) ==
  {i \in 1..Len(ErrorRules(rev, prov)) :
     RuleMatches(ErrorRules(rev, prov)[i], toLowerCase(text))}

\* the same for the text of the data format error, which the catch block
\* classifies after a parse failure
ParseFailureHits ==
  [rev \in Revisions |-> [prov \in ModelProvider |-> Hits(rev, prov, DataFormatText)]]

\* the rules that match the error the catch block of this call caught
CaughtHits ==
  IF LastEvent = "fault" THEN Hits(revision, provider, fault)
  ELSE ParseFailureHits[revision][provider]

\* the call failed in the catch block
Classified == callPc = "Failed" /\ events # << >>

\* C16: the message surfaced by the catch block is that of the first rule,
\* in the order of the rule list, with a substring occurring in the
\* lower-cased error text; the earliest rule wins when several match; the
\* generic message is surfaced when none matches.
C16_FirstMatchWins ==
  Classified =>
    IF CaughtHits = {}
    THEN SurfacedMessage = GenericMessage
    ELSE \E i \in CaughtHits :
           /\ \A j \in CaughtHits : i <= j
           /\ SurfacedMessage = ErrorRules(revision, provider)[i].msg

C16_Witness ==
  /\ FaultHandled
  /\ Cardinality(CaughtHits) >= 2
  /\ 1 \in CaughtHits
  /\ SurfacedMessage = AccessDeniedMessage

\* the surfaced message carries a tier tag in front
Tagged == Len(errorMessage) = 2 /\ errorMessage[1] \in TierTags

\* C17: when the call fails after the credential check and the high-context
\* model was the one selected, the surfaced message carries the tier tag;
\* when the fast model was selected for a caller who asked for the fast
\* tier, it carries none.
C17_TierTag ==
  Classified =>
    /\ modelName = ProModel => Tagged
    /\ (modelName = FlashModel /\ provider = GEMINI_FLASH) => ~Tagged

\* What holds: the first copy of the function tags as C17 says; the second
\* tags for the Grok provider alone.
TagInRevision1 ==
  (Classified /\ revision = 1) =>
    /\ modelName = ProModel => Tagged
    /\ (modelName = FlashModel /\ provider = GEMINI_FLASH) => ~Tagged

TagInRevision2 ==
  (Classified /\ revision = 2) => (Tagged <=> provider = GROK_BETA)


\* a member of a parsed object holds a valid field of a Transaction
IsTransactionField(m) ==
  \/ m.k = KeyDate /\ m.v.t = "str"
  \/ m.k = KeyDescription /\ m.v.t = "str"
  \/ m.k = KeyAmount /\ m.v.t = "num" /\ m.v.v >= 0
  \/ m.k = KeyType /\ m.v.t = "str" /\ m.v.v \in {CreditText, DebitText}

\* a parsed value is a Transaction: the four fields, each once, each valid
IsTransaction(e) ==
  /\ e.t = "obj"
  /\ Len(e.v) = 4
  /\ {e.v[i].k : i \in 1..4} = {KeyDate, KeyDescription, KeyAmount, KeyType}
  /\ \A i \in 1..4 : IsTransactionField(e.v[i])

\* a parsed value is a sequence of Transactions
IsTransactionList(val) ==
  /\ val.t = "arr"
  /\ \A i \in 1..Len(val.v) : IsTransaction(val.v[i])

\* C18: every value the function returns on success is a sequence of
\* Transaction records (date, description, amount >= 0, type CREDIT or
\* DEBIT), whatever text the provider returned; a text that parses as JSON
\* but is no such sequence is never returned.
C18_ReturnsTransactions == callPc = "Done" => IsTransactionList(result)

\* What holds: JSON.parse's value is returned as it is; the answers of the
\* model that are transaction arrays come back as sequences of Transactions.
SampleArraysReturnTransactions ==
  (callPc = "Done" /\ LastEvent = "text" /\ answer.raw = 0) => IsTransactionList(result)

\* the answer is the whole JSON text of one of the sample lists, in a
\* markdown fence or not
CompleteAnswer(a) == a.raw = 0 /\ a.cut = 0 /\ a.list > 0

\* C19: when the provider returns a complete, well-formed JSON array of
\* transaction objects, in markdown fences or not, the call returns exactly
\* those transactions, fields unchanged, in the order of the payload: not
\* sorted by date, duplicates kept.
C19_WellFormedArrayReturned ==
  (callPc \in {"Done", "Failed"} /\ LastEvent = "text" /\ CompleteAnswer(answer))
    => /\ callPc = "Done"
       /\ result = ListValue(SampleLists[answer.list])

\* What holds: the transactions come back unchanged and in the payload's
\* order when no text in them holds three backticks in a row; the fence
\* removal deletes every run of three backticks, inside strings too.
HoldsFence(chars) == \E i \in 1..Len(chars) : MatchAt(chars, i, Fence)

FenceFree(list) ==
  \A k \in 1..Len(list) : ~HoldsFence(list[k].date) /\ ~HoldsFence(list[k].description)

FenceFreeArrayReturned ==
  (callPc \in {"Done", "Failed"} /\ LastEvent = "text" /\ CompleteAnswer(answer)
     /\ FenceFree(SampleLists[answer.list]))
    => /\ callPc = "Done"
       /\ result = ListValue(SampleLists[answer.list])

\* a fenced answer holding the same transaction twice comes back as two
DuplicatesKept ==
  (callPc = "Done" /\ LastEvent = "text" /\ CompleteAnswer(answer)
     /\ SampleLists[answer.list] = <<Salary, Salary>>)
    => result = ListValue(<<Salary, Salary>>)

\* an answer whose dates descend comes back in the payload's order
OutOfDateOrderKept ==
  (callPc = "Done" /\ LastEvent = "text" /\ CompleteAnswer(answer)
     /\ SampleLists[answer.list] = <<Rent, Salary>>)
    => result.v[1] = TxnValue(Rent) /\ result.v[2] = TxnValue(Salary)

\* the call has returned or thrown
Terminal == callPc \in {"Done", "Failed"}

\* the outcome of a terminal call: a value and no message, or a message and
\* no value
OneOutcome ==
  /\ callPc = "Done" => (result.t # "none" /\ errorMessage = << >>)
  /\ callPc = "Failed" => (result.t = "none" /\ errorMessage # << >>)

\* C20: every extraction call ends in exactly one of Done (a value is
\* returned) and Failed (an error is raised), and does so eventually when
\* every provider request is answered or fails; once the call has ended
\* nothing changes any more: no further provider request is made.
C20_Terminates ==
  /\ <>[]Terminal
  /\ [](Terminal => OneOutcome)
  /\ [][Terminal => UNCHANGED <<callPc, invocations, inFlight, events, result,
                               errorMessage>>]_vars

C20_Witness ==
  /\ callPc = "Done"
  /\ OneOutcome
  /\ events = <<"invoke", "empty", "invoke", "text">>
  /\ invocations = 2

\* C29: for every grossIncome, negative ones included, totalTax is 0 exactly
\* when grossIncome <= 250000, and then taxableIncome and effectiveRate are
\* 0 too; for every grossIncome > 250000 totalTax is strictly positive.
C29_ZeroTaxThreshold ==
  TaxDone =>
    /\ taxResult.totalTax = 0 <=> grossIncome <= 250000
    /\ grossIncome <= 250000 =>
         /\ taxResult.taxableIncome = 0
         /\ taxResult.effectiveRate = Zero
    /\ grossIncome > 250000 => taxResult.totalTax > 0

\* a gross income so negative that the relief is negative as well
C29_Witness ==
  /\ TaxDone
  /\ grossIncome = -2000000
  /\ taxResult.consolidatedRelief = -200000
  /\ taxResult.taxableIncome = 0
  /\ taxResult.totalTax = 0

\* the first taxed income of the model above the threshold
JustAboveThreshold ==
  (TaxDone /\ grossIncome = 250100) =>
     taxResult.taxableIncome = 80 /\ taxResult.totalTax = 560

\* the stripped text opens with "[", does not end with "]" and holds no "}"
CutBeforeFirstObject(text) ==
  RepairApplies(text) /\ lastIndexOf(StripFences(text), "}") = 0

\* C30: when the fence-stripped response opens with "[", does not end with
\* "]" and holds no "}", no repair is made and the call fails with an error;
\* such a response never becomes a successful empty transaction sequence.
C30_NothingToRepairFails ==
  (callPc \in {"Done", "Failed"} /\ LastEvent = "text" /\ CutBeforeFirstObject(jsonText))
    => /\ cleanJson(revision, jsonText) = StripFences(jsonText)
       /\ callPc = "Failed"
       /\ result = NoValue
       /\ errorMessage # << >>

\* the response that is the opening bracket alone, in the copy that repairs
C30_Witness ==
  /\ revision = 1
  /\ callPc = "Failed"
  /\ LastEvent = "text"
  /\ jsonText = <<"[">>
  /\ result = NoValue

\* the first attempt got an empty response and the retry failed
RetryFailed ==
  /\ callerRetry = 0
  /\ callPc = "Failed"
  /\ Len(events) = 4
  /\ events[2] = "empty"

\* the message one pass of the catch block gives for the error the retry
\* caught
ClassifiedOnce ==
  IF CaughtHits = {} THEN GenericMessage
  ELSE ErrorRules(revision, provider)[CHOOSE i \in CaughtHits : \A j \in CaughtHits : i <= j].msg

\* C27: when the first attempt returns an empty response and the retry
\* fails, the caller receives exactly the error of the retry: classified
\* once, from the text of the error the retry caught, and tagged at most
\* once.
C27_RetryErrorPassedOn ==
  RetryFailed =>
    /\ errorMessage = PrefixTag(revision, provider, modelName) \o <<ClassifiedOnce>>
    /\ Len(errorMessage) <= 2
    /\ Cardinality({i \in 1..Len(errorMessage) : errorMessage[i] \in TierTags}) <= 1

\* a retry whose message holds "limit" and a tag, neither read again
C27_Witness ==
  /\ RetryFailed
  /\ revision = 1
  /\ LastEvent = "fault"
  /\ errorMessage = <<ProAuditTag, RateLimitedMessage>>

\* ------------------------------------------------------------------------
\* Two extraction calls side by side
\* ------------------------------------------------------------------------

\* the call run alone from its entry over the responses seen
RECURSIVE Replay(_, _)
Replay(st, seen) ==
  IF seen = << >> THEN st
  ELSE Replay(Continue(st, st.rc, Head(seen)), Tail(seen))

AloneRun(c) ==
  Replay(AttemptStart(IdleCall(calls[c].prov, calls[c].doc), 0), calls[c].seen)

FirstEmpty(c) == calls[c].seen # << >> /\ Head(calls[c].seen).kind = "empty"

\* C21: two extraction calls under way at once do not interfere: the model,
\* the retry count and the outcome of each are those of the call run alone
\* on its own arguments and on the responses of its own provider requests,
\* and a call retries exactly when its own first response was empty,
\* whatever the other call has received.
C21_CallsDoNotInterfere ==
  \A c \in CallIds \cap DOMAIN calls :
    calls[c].pc # "Idle" =>
      /\ calls[c] = AloneRun(c)
      /\ apiKey => calls[c].model = selectModel(revision, calls[c].doc, calls[c].prov)
      /\ apiKey => calls[c].rc = (IF FirstEmpty(c) THEN 1 ELSE 0)
      /\ apiKey => calls[c].invocations = calls[c].rc + 1
      /\ Len(calls[c].seen) <= 2

\* one call has retried and returned while the other, whose own first
\* response was empty, is still waiting for its retry
C21_Witness ==
  /\ DOMAIN calls = CallIds
  /\ calls["A"].pc = "Done"
  /\ Len(calls["A"].seen) = 2
  /\ FirstEmpty("A")
  /\ calls["B"].pc = "RequestSent"
  /\ calls["B"].rc = 1

\* ------------------------------------------------------------------------
\* Dashboard
\* ------------------------------------------------------------------------

IsCredit(t) == t.type = <<"C","R","E","D","I","T">>

IsDebit(t) == t.type = <<"D","E","B","I","T">>

\* the amounts of a list added up from its end
RECURSIVE AmountsTotal(_)
AmountsTotal(txs) ==
  IF txs = << >> THEN 0
  ELSE AmountsTotal(SubSeq(txs, 1, Len(txs) - 1)) + txs[Len(txs)].amount

\* the list with the amount of every DEBIT transaction changed
DebitsChanged(txs) ==
  [n \in 1..Len(txs) |->
     IF IsDebit(txs[n]) THEN [txs[n] EXCEPT !.amount = 3 * txs[n].amount + 700]
     ELSE txs[n]]

\* C22: the breakdown the Dashboard shows is that of a gross income equal to
\* the sum of the amounts of the CREDIT transactions; with the DEBIT
\* transactions removed, with a DEBIT transaction added or with the DEBIT
\* amounts changed, every field of the breakdown is the same.
C22_TaxFromCreditsOnly ==
  view = "dashboard" =>
    /\ taxData = calculateNigerianPIT(AmountsTotal(SelectSeq(transactions, IsCredit)))
    /\ DashboardTax(SelectSeq(transactions, IsCredit)) = taxData
    /\ \A d \in {Rent, Transfer, Quote} :
         /\ DashboardTax(Append(transactions, d)) = taxData
         /\ DashboardTax(<<d>> \o transactions) = taxData
    /\ DashboardTax(DebitsChanged(transactions)) = taxData

\* the Dashboard shows a list that holds a CREDIT and a DEBIT transaction
C22_Witness ==
  /\ view = "dashboard"
  /\ transactions = <<Salary, Rent>>
  /\ totalDebit(transactions) = 120000
  /\ taxData.grossIncome = 500000
  /\ taxData.totalTax > 0

\* ------------------------------------------------------------------------
\* App
\* ------------------------------------------------------------------------

\* C23: after every sequence of onboarding, upload, extraction success,
\* extraction failure and reset, localStorage holds nothing but the
\* hasOnboarded flag.
C23_OnlyTheFlagIsStored ==
  view \in {"upload", "dashboard"} =>
    \A entry \in storage : entry = <<"hasOnboarded", "true">>

\* the flag is stored, and a reset, a new upload and an extraction with
\* transactions have followed
C23_Witness ==
  /\ storage = {<<"hasOnboarded", "true">>}
  /\ resetState = "submitted"
  /\ view = "dashboard"
  /\ transactions # << >>

\* each successful extraction replaces the transaction set by its result
ReplacedWholesale ==
  [][\A i \in 1..Len(jobs), l \in ExtractedLists :
       ExtractionResolves(i, l) => transactions' = l /\ view' = "dashboard"]_vars

\* handleReset leaves the transaction set empty and the view 'upload'
ResetDiscards ==
  [][HandleReset => transactions' = << >> /\ view' = "upload"]_vars

\* C24: after handleReset the transaction set is empty and the view is
\* 'upload', and it stays so until the user submits a new document.
C24_EmptyFromResetToSubmission ==
  resetState = "reset" => transactions = << >> /\ view = "upload"

\* C25: when an extraction call fails, handleFileProcess starts no other
\* extraction, leaves the transaction set and the view as they are and
\* clears isProcessing; a drop on a mounted FileUpload is then taken again.
C25_FailureFrame ==
  [][\A i \in 1..Len(jobs) :
       ExtractionRejects(i) =>
         /\ transactions' = transactions
         /\ view' = view
         /\ taxData' = taxData
         /\ reads' = reads
         /\ Len(jobs') = Len(jobs) - 1
         /\ \A n \in 1..Len(jobs') : \E k \in 1..Len(jobs) : k # i /\ jobs'[n] = jobs[k]
         /\ isProcessing' = FALSE
         /\ view' = "upload" => (uploadRev' = 2 => ~isProcessing')]_vars

\* the only extraction started has failed (no success and no reset has moved
\* the view, and the read that led to it had ended): nothing is under way,
\* the flag is cleared and the upload view is still shown
C25_Witness ==
  /\ uploadRev = 2
  /\ view = "upload"
  /\ resetState = "none"
  /\ uploadProgress = 100
  /\ transactions = << >>
  /\ jobs = << >>
  /\ reads = << >>
  /\ ~isProcessing

\* ------------------------------------------------------------------------
\* FileUpload
\* ------------------------------------------------------------------------

Admissible(file, rev) ==
  /\ file.type \in {"application/pdf", "image/jpeg", "image/png"}
  /\ file.size <= (IF rev = 1 THEN 5242880 ELSE 524288000)

\* C26: every file that is read, and every file handed to onFileProcess, has
\* one of the three MIME types and a size within the ceiling of the mounted
\* FileUpload; a file that fails either test sets an error and starts no
\* read and no extraction.
C26_OnlyAdmissibleFilesProcessed ==
  /\ [](/\ \A n \in 1..Len(reads) : Admissible(reads[n].file, uploadRev)
        /\ \A n \in 1..Len(jobs)  : Admissible(jobs[n].file, uploadRev))
  /\ [][\A file \in Files(uploadRev) :
          (Drop(file) \/ Select(file)) /\ ~Admissible(file, uploadRev) =>
            /\ uploadError' \in {"format", "size"}
            /\ reads' = reads
            /\ jobs' = jobs
            /\ isProcessing' = isProcessing]_vars

\* a file at the ceiling is with the extraction pipeline and a file over the
\* ceiling has been rejected
C26_Witness ==
  /\ view = "upload"
  /\ Len(jobs) = 1
  /\ jobs[1].file.size = SizeCeiling(uploadRev)
  /\ reads = << >>
  /\ uploadError = "size"

\* C28: isProcessing is true whenever an extraction call started by
\* handleFileProcess is in flight.
C28_ProcessingWhileInFlight ==
  jobs # << >> => isProcessing

====
